---- MODULE Spec2Model ----
(***************************************************************************)
(* Compatibility-group store of the Spare-Parts bot (src/database.py).     *)
(* Two collections: phones (keyed by search_key, unique index) and         *)
(* compatibility_groups (keyed by _id).  Every pymongo call is one atomic  *)
(* store step; link_parts and delete_phone are sequences of such steps.    *)
(***************************************************************************)
EXTENDS Integers, Sequences, FiniteSets, TLC

\* ------------------------------------------------------------------------
\* Bounds of the model
\* ------------------------------------------------------------------------
\* longest model_names list handed to link_parts
MaxLen == 2
\* number of group documents insert_one may allocate in one run of completed
\* calls (interleaved runs allocate one per call at most)
MaxId == 2
\* number of calls made in one run
MaxCalls == 4
\* number of calls made in one run of the interleaved specification
MaxConc == 3
\* number of calls running at the same time
MaxInFlight == 2

\* ------------------------------------------------------------------------
\* Model names, part types, folding
\* ------------------------------------------------------------------------
\* "A" and "a" differ only in letter case
Names == {"A", "a", "B", "C"}

PartTypes == {"display", "glass"}

\* a document field that is absent
None == 0

\* str.lower() / str.casefold() of a model name
Lower(n) == CASE n = "A" -> "a"
              [] n = "a" -> "a"
              [] n = "B" -> "b"
              [] n = "C" -> "c"
              [] OTHER -> n

\* position of a name under key=str.casefold
FoldRank(n) == CASE Lower(n) = "a" -> 1
                 [] Lower(n) = "b" -> 2
                 [] Lower(n) = "c" -> 3
                 [] OTHER -> 0

Range(s) == {s[i] : i \in DOMAIN s}

\* position of a name in the order of str (by code point: upper case first)
CodeRank(n) == CASE n = "A" -> 1
                 [] n = "B" -> 2
                 [] n = "C" -> 3
                 [] n = "a" -> 4
                 [] OTHER -> 0

\* model_names lists of length 0..MaxLen.  link_parts reads model_names
\* through set() and $in only (lines 80-86), so one list stands for all the
\* lists of the same names: the one in the order of str
NameLists ==
    {s \in UNION {[1..n -> Names] : n \in 0..MaxLen} :
        \A i, j \in DOMAIN s : i < j => CodeRank(s[i]) < CodeRank(s[j])}

\* the lists process_compat_list builds: [main_model] + other_models
NonEmptyLists == NameLists \ {<<>>}

\* the lists sorted(list(S), key=str.casefold) can return: the order of
\* names with equal keys is the iteration order of a set, which is arbitrary
RECURSIVE SortedLists(_)
SortedLists(S) ==
    IF S = {} THEN {<<>>}
    ELSE UNION {{<<x>> \o s : s \in SortedLists(S \ {x})} :
                x \in {y \in S : \A z \in S : FoldRank(y) <= FoldRank(z)}}

\* ------------------------------------------------------------------------
\* State
\* ------------------------------------------------------------------------
VARIABLES
    phones,   \* phones_collection: search_key -> document
    groups,   \* groups_collection: _id -> document
    nextId,   \* next ObjectId insert_one generates
    proc,     \* interleaved calls: program counter and locals of each call
    calls     \* number of calls started so far

vars == <<phones, groups, nextId, proc, calls>>

\* ------------------------------------------------------------------------
\* Store steps (one pymongo call each)
\* ------------------------------------------------------------------------
\* phones_collection.find_one({"search_key": model_name.lower()}) finds a
\* document
HasPhone(ph, model_name) == Lower(model_name) \in DOMAIN ph

\* the document find_phone(model_name) returns when there is one
find_phone(ph, model_name) == ph[Lower(model_name)]

\* a find without the $in filter: every phone document is returned
FindPhones_All(ph, model_names) == {ph[k] : k \in DOMAIN ph}

\* phones_collection.find({"search_key": {"$in": model_names_lower}})
FindPhones(ph, model_names) ==
    {ph[k] : k \in {Lower(m) : m \in Range(model_names)} \cap DOMAIN ph}

\* a link_parts that never finds the group ids already stored
ExistingGroupIds_NoneFound(existing_phones, part_type) == {}

\* {phone[group_id_key] for phone in existing_phones if group_id_key in phone}
ExistingGroupIds(existing_phones, part_type) ==
    {p[part_type] : p \in {q \in existing_phones : q[part_type] # None}}

\* set(model_names) updated with the models of every fetched group document
AllModelsInGroups(gr, model_names, existing_group_ids) ==
    Range(model_names) \cup
    UNION {gr[g].models : g \in existing_group_ids \cap DOMAIN gr}

\* str(id) of an ObjectId: hex digits, the same number for every id (24 in
\* the code, 2 here)
IdStr(id) == <<id \div 16, id % 16>>

\* s < t in the order of str: at the first position where they differ, or s
\* a proper prefix of t
StrLess(s, t) ==
    \E i \in 1..Len(t) :
        /\ \A j \in 1..(i - 1) : j <= Len(s) /\ s[j] = t[j]
        /\ (i > Len(s) \/ s[i] < t[i])

\* a link_parts that keeps the group whose id string is the largest
PrimaryGroupId_Largest(existing_group_ids) ==
    CHOOSE g \in existing_group_ids :
        \A h \in existing_group_ids : g = h \/ StrLess(IdStr(h), IdStr(g))

\* ObjectId(sorted([str(id) for id in existing_group_ids])[0])
PrimaryGroupId(existing_group_ids) ==
    CHOOSE g \in existing_group_ids :
        \A h \in existing_group_ids : g = h \/ StrLess(IdStr(g), IdStr(h))

\* groups_collection.insert_one({'type': part_type, 'models': []})
InsertGroup(gr, id, part_type) ==
    [g \in DOMAIN gr \cup {id} |->
        IF g = id THEN [type |-> part_type, models |-> {}] ELSE gr[g]]

\* groups_collection.update_one({"_id": id}, {"$set": {"models": .., "type": ..}})
\* (no upsert: nothing happens when the document is gone)
SetMembers(gr, id, final_model_list, part_type) ==
    IF id \in DOMAIN gr
    THEN [gr EXCEPT ![id] = [type |-> part_type, models |-> Range(final_model_list)]]
    ELSE gr

\* an upsert that writes _id with $set instead of $setOnInsert
UpsertPhone_Rename(ph, model_name, part_type, id) ==
    LET k == Lower(model_name) IN
    [x \in DOMAIN ph \cup {k} |->
        IF x = k
        THEN [(IF k \in DOMAIN ph THEN ph[k]
               ELSE [id |-> model_name, search_key |-> k,
                     display |-> None, glass |-> None])
              EXCEPT !.id = model_name, ![part_type] = id]
        ELSE ph[x]]

\* an upsert that replaces the whole document, so the reference of the other
\* category is lost
UpsertPhone_Replace(ph, model_name, part_type, id) ==
    LET k == Lower(model_name) IN
    [x \in DOMAIN ph \cup {k} |->
        IF x = k
        THEN [[id |-> IF k \in DOMAIN ph THEN ph[k].id ELSE model_name,
               search_key |-> k,
               display |-> None, glass |-> None] EXCEPT ![part_type] = id]
        ELSE ph[x]]

\* UpdateOne({"search_key": lower}, {"$set": .., "$setOnInsert": ..}, upsert=True)
UpsertPhone(ph, model_name, part_type, id) ==
    LET k == Lower(model_name) IN
    IF k \in DOMAIN ph
    THEN [ph EXCEPT ![k][part_type] = id]
    ELSE [x \in DOMAIN ph \cup {k} |->
            IF x = k
            THEN [[id |-> model_name, search_key |-> k,
                   display |-> None, glass |-> None] EXCEPT ![part_type] = id]
            ELSE ph[x]]

\* a batch of plain inserts instead of upserts: an ordered batch stops at the
\* first document whose search_key is already stored (unique index)
RECURSIVE BulkWrite_Inserts(_, _, _, _, _)
BulkWrite_Inserts(ph, final_model_list, i, part_type, id) ==
    IF i > Len(final_model_list) THEN ph
    ELSE IF Lower(final_model_list[i]) \in DOMAIN ph THEN ph
    ELSE BulkWrite_Inserts(UpsertPhone(ph, final_model_list[i], part_type, id),
                           final_model_list, i + 1, part_type, id)

\* phones_collection.bulk_write(bulk_ops) from position i: ordered, one
\* upsert after the other
RECURSIVE BulkWrite(_, _, _, _, _)
BulkWrite(ph, final_model_list, i, part_type, id) ==
    IF i > Len(final_model_list) THEN ph
    ELSE BulkWrite(UpsertPhone(ph, final_model_list[i], part_type, id),
                   final_model_list, i + 1, part_type, id)

\* groups_collection.delete_many({"_id": {"$in": list(groups_to_delete)}})
DeleteMany(gr, ids) == [g \in DOMAIN gr \ ids |-> gr[g]]

\* an update that empties the member list instead of pulling one name
PullModel_ClearsGroup(gr, id, model_name) ==
    IF id \in DOMAIN gr
    THEN [gr EXCEPT ![id].models = {}]
    ELSE gr

\* groups_collection.update_one({"_id": id}, {"$pull": {"models": model_name}})
PullModel(gr, id, model_name) ==
    IF id \in DOMAIN gr
    THEN [gr EXCEPT ![id].models = @ \ {model_name}]
    ELSE gr

\* a delete that keeps the document and unsets its group references
DeleteOne_Unset(ph, model_name) ==
    [k \in DOMAIN ph |->
        IF k = Lower(model_name)
        THEN [ph[k] EXCEPT !.display = None, !.glass = None]
        ELSE ph[k]]

\* phones_collection.delete_one({"search_key": model_name.lower()})
DeleteOne(ph, model_name) == [k \in DOMAIN ph \ {Lower(model_name)} |-> ph[k]]

\* result.deleted_count of that delete_one
DeletedCount(ph, model_name) == IF Lower(model_name) \in DOMAIN ph THEN 1 ELSE 0

\* ------------------------------------------------------------------------
\* Whole calls, run without interleaving, as functions of the store
\* ------------------------------------------------------------------------
Store(ph, gr, nid) == [phones |-> ph, groups |-> gr, nextId |-> nid]

\* the possible values of final_model_list in link_parts on store st
FinalModelLists(st, model_names, part_type) ==
    SortedLists(AllModelsInGroups(st.groups, model_names,
        ExistingGroupIds(FindPhones(st.phones, model_names), part_type)))

\* link_parts(model_names, part_type) when sorted() returned final_model_list
link_parts(st, model_names, part_type, final_model_list) ==
    LET existing_group_ids ==
            ExistingGroupIds(FindPhones(st.phones, model_names), part_type)
        fresh == existing_group_ids = {}
        primary_group_id ==
            IF fresh THEN st.nextId ELSE PrimaryGroupId(existing_group_ids)
        groups_to_delete ==
            IF fresh THEN {} ELSE existing_group_ids \ {primary_group_id}
        gr1 == IF fresh THEN InsertGroup(st.groups, st.nextId, part_type)
               ELSE st.groups
        gr2 == SetMembers(gr1, primary_group_id, final_model_list, part_type)
        ph1 == BulkWrite(st.phones, final_model_list, 1, part_type, primary_group_id)
        gr3 == DeleteMany(gr2, groups_to_delete)
    IN  [phones |-> ph1, groups |-> gr3,
         nextId |-> IF fresh THEN st.nextId + 1 ELSE st.nextId,
         ret |-> "ok"]

\* a delete_phone without the check of line 34: it reports success always
delete_phone_NoCheck(st, model_name) ==
    [phones |-> DeleteOne(st.phones, model_name), groups |-> st.groups,
     nextId |-> st.nextId, ret |-> TRUE]

\* delete_phone(model_name)
delete_phone(st, model_name) ==
    LET phone_doc == find_phone(st.phones, model_name) IN
    IF ~HasPhone(st.phones, model_name)
    THEN [phones |-> st.phones, groups |-> st.groups, nextId |-> st.nextId,
          ret |-> FALSE]
    ELSE
        LET gr1 == IF phone_doc.display # None
                   THEN PullModel(st.groups, phone_doc.display, model_name)
                   ELSE st.groups
            gr2 == IF phone_doc.glass # None
                   THEN PullModel(gr1, phone_doc.glass, model_name)
                   ELSE gr1
        IN  [phones |-> DeleteOne(st.phones, model_name), groups |-> gr2,
             nextId |-> st.nextId,
             ret |-> DeletedCount(st.phones, model_name) > 0]

\* sorted(S) of a collection of names without repetition: the order of str
RECURSIVE SortedByStr(_)
SortedByStr(S) ==
    IF S = {} THEN <<>>
    ELSE LET x == CHOOSE y \in S : \A z \in S : CodeRank(y) <= CodeRank(z)
         IN  <<x>> \o SortedByStr(S \ {x})

\* a get_compatible_models that answers [] for a phone without a group
get_compatible_models_NoGroupEmpty(st, model_name, part_type) ==
    IF ~HasPhone(st.phones, model_name) THEN <<>>
    ELSE LET group_id == find_phone(st.phones, model_name)[part_type] IN
         IF group_id = None \/ group_id \notin DOMAIN st.groups THEN <<>>
         ELSE SortedByStr({m \in st.groups[group_id].models :
                               Lower(m) # Lower(model_name)})

\* a get_compatible_models that leaves out only the literal model_name
get_compatible_models_ExactSelf(st, model_name, part_type) ==
    IF ~HasPhone(st.phones, model_name) THEN <<>>
    ELSE LET group_id == find_phone(st.phones, model_name)[part_type] IN
         IF group_id = None THEN <<model_name>>
         ELSE IF group_id \in DOMAIN st.groups
              THEN SortedByStr(st.groups[group_id].models \ {model_name})
              ELSE <<>>

\* get_compatible_models(model_name, part_type)
get_compatible_models(st, model_name, part_type) ==
    IF ~HasPhone(st.phones, model_name) THEN <<>>
    ELSE LET group_id == find_phone(st.phones, model_name)[part_type] IN
         IF group_id = None THEN <<model_name>>
         ELSE IF group_id \in DOMAIN st.groups
              THEN SortedByStr({m \in st.groups[group_id].models :
                                    Lower(m) # Lower(model_name)})
              ELSE <<>>

\* ------------------------------------------------------------------------
\* Sequential specification: calls complete one after the other
\* ------------------------------------------------------------------------
Cur == Store(phones, groups, nextId)

NoProc == [p \in {} |-> None]

Init ==
    /\ phones = [k \in {} |-> None]
    /\ groups = [g \in {} |-> None]
    /\ nextId = 1
    /\ proc = NoProc
    /\ calls = 0

\* one completed link_parts call
Link ==
    \E model_names \in NonEmptyLists, part_type \in PartTypes :
      \E final_model_list \in FinalModelLists(Cur, model_names, part_type) :
        LET r == link_parts(Cur, model_names, part_type, final_model_list) IN
        /\ r.nextId <= MaxId + 1
        /\ calls < MaxCalls
        /\ calls' = calls + 1
        /\ phones' = r.phones
        /\ groups' = r.groups
        /\ nextId' = r.nextId
        /\ UNCHANGED <<proc>>

\* one completed delete_phone call
Delete ==
    \E model_name \in Names :
        LET r == delete_phone(Cur, model_name) IN
        /\ calls < MaxCalls
        /\ calls' = calls + 1
        /\ phones' = r.phones
        /\ groups' = r.groups
        /\ UNCHANGED <<nextId, proc>>

Next == Link \/ Delete

Spec == Init /\ [][Next]_vars

\* ------------------------------------------------------------------------
\* Interleaved specification: every pymongo call of a running link_parts or
\* delete_phone is one step, and the steps of different calls interleave
\* ------------------------------------------------------------------------
\* locals of a call that has not assigned them (yet)
NewCall(op, model_names, part_type) ==
    [op |-> op, pc |-> IF op = "link" THEN "find_phones" ELSE "find_phone",
     model_names |-> model_names, part_type |-> part_type,
     existing_group_ids |-> {}, final_model_list |-> <<>>,
     primary_group_id |-> None, groups_to_delete |-> {}, i |-> 0,
     display_group_id |-> None, glass_group_id |-> None, ret |-> "none"]

\* the call has returned: its locals are gone, its arguments and result stay
Returned(c, ret) ==
    [NewCall(c.op, c.model_names, c.part_type) EXCEPT !.pc = "done", !.ret = ret]

At(p, pc) == p \in DOMAIN proc /\ proc[p].pc = pc

\* number of calls that have not returned
InFlight == Cardinality({p \in DOMAIN proc : proc[p].pc # "done"})

\* a request arrives: link_parts(model_names, part_type) is called
StartLink ==
    \E model_names \in NonEmptyLists, part_type \in PartTypes :
        /\ calls < MaxConc
        /\ InFlight < MaxInFlight
        /\ calls' = calls + 1
        /\ proc' = [p \in DOMAIN proc \cup {calls + 1} |->
                        IF p = calls + 1
                        THEN NewCall("link", model_names, part_type)
                        ELSE proc[p]]
        /\ UNCHANGED <<phones, groups, nextId>>

\* lines 80-86: find the phones, collect their group ids; without any, line
\* 93 sorts the input names
LinkFindPhones ==
    \E p \in DOMAIN proc :
        /\ At(p, "find_phones")
        /\ LET c == proc[p]
               ids == ExistingGroupIds(FindPhones(phones, c.model_names), c.part_type)
           IN  IF ids # {}
               THEN proc' = [proc EXCEPT ![p].existing_group_ids = ids,
                                         ![p].pc = "find_groups"]
               ELSE \E l \in SortedLists(Range(c.model_names)) :
                        proc' = [proc EXCEPT ![p].final_model_list = l,
                                             ![p].pc = "insert_group"]
        /\ UNCHANGED <<phones, groups, nextId, calls>>

\* lines 88-97: fetch the group documents, sort the union, pick the primary
LinkFindGroups ==
    \E p \in DOMAIN proc :
        /\ At(p, "find_groups")
        /\ LET c == proc[p]
               primary == PrimaryGroupId(c.existing_group_ids)
           IN  \E l \in SortedLists(AllModelsInGroups(groups, c.model_names,
                                                      c.existing_group_ids)) :
                   proc' = [proc EXCEPT
                       ![p].final_model_list = l,
                       ![p].primary_group_id = primary,
                       ![p].groups_to_delete = c.existing_group_ids \ {primary},
                       ![p].pc = "set_members"]
        /\ UNCHANGED <<phones, groups, nextId, calls>>

\* lines 99-101: insert a new, empty group document
LinkInsertGroup ==
    \E p \in DOMAIN proc :
        /\ At(p, "insert_group")
        /\ groups' = InsertGroup(groups, nextId, proc[p].part_type)
        /\ nextId' = nextId + 1
        /\ proc' = [proc EXCEPT ![p].primary_group_id = nextId,
                                ![p].pc = "set_members"]
        /\ UNCHANGED <<phones, calls>>

\* lines 105-108: write the member list into the primary group
LinkSetMembers ==
    \E p \in DOMAIN proc :
        /\ At(p, "set_members")
        /\ LET c == proc[p] IN
           groups' = SetMembers(groups, c.primary_group_id, c.final_model_list,
                                c.part_type)
        /\ proc' = [proc EXCEPT ![p].i = 1, ![p].pc = "bulk_write"]
        /\ UNCHANGED <<phones, nextId, calls>>

\* line 122: the next upsert of the ordered bulk write; after the last one
\* lines 124-125 follow, or the call returns
LinkBulkWrite ==
    \E p \in DOMAIN proc :
        /\ At(p, "bulk_write")
        /\ LET c == proc[p] IN
           /\ phones' = UpsertPhone(phones, c.final_model_list[c.i], c.part_type,
                                    c.primary_group_id)
           /\ proc' = [proc EXCEPT ![p] =
                 IF c.i < Len(c.final_model_list) THEN [c EXCEPT !.i = c.i + 1]
                 ELSE IF c.groups_to_delete # {} THEN [c EXCEPT !.pc = "delete_many"]
                 ELSE Returned(c, "ok")]
        /\ UNCHANGED <<groups, nextId, calls>>

\* line 125: delete the merged-away groups
LinkDeleteMany ==
    \E p \in DOMAIN proc :
        /\ At(p, "delete_many")
        /\ groups' = DeleteMany(groups, proc[p].groups_to_delete)
        /\ proc' = [proc EXCEPT ![p] = Returned(proc[p], "ok")]
        /\ UNCHANGED <<phones, nextId, calls>>

\* a request arrives: delete_phone(model_name) is called
StartDelete ==
    \E model_name \in Names :
        /\ calls < MaxConc
        /\ InFlight < MaxInFlight
        /\ calls' = calls + 1
        /\ proc' = [p \in DOMAIN proc \cup {calls + 1} |->
                        IF p = calls + 1
                        THEN NewCall("delete", <<model_name>>, "none")
                        ELSE proc[p]]
        /\ UNCHANGED <<phones, groups, nextId>>

\* where delete_phone goes on after line 38 or after a $pull
AfterPull(c, pulled) ==
    IF c.display_group_id # None /\ "display" \notin pulled THEN "pull_display"
    ELSE IF c.glass_group_id # None /\ "glass" \notin pulled THEN "pull_glass"
    ELSE "delete_one"

\* lines 33-38: look the phone up, return False without one
DeleteFindPhone ==
    \E p \in DOMAIN proc :
        /\ At(p, "find_phone")
        /\ LET c == proc[p]
               model_name == c.model_names[1]
           IN  IF ~HasPhone(phones, model_name)
               THEN proc' = [proc EXCEPT ![p] = Returned(c, "false")]
               ELSE LET phone_doc == find_phone(phones, model_name)
                        d == [c EXCEPT !.display_group_id = phone_doc.display,
                                       !.glass_group_id = phone_doc.glass]
                    IN  proc' = [proc EXCEPT ![p] = [d EXCEPT !.pc = AfterPull(d, {})]]
        /\ UNCHANGED <<phones, groups, nextId, calls>>

\* lines 40-44: $pull the name from the display group
DeletePullDisplay ==
    \E p \in DOMAIN proc :
        /\ At(p, "pull_display")
        /\ LET c == proc[p] IN
           /\ groups' = PullModel(groups, c.display_group_id, c.model_names[1])
           /\ proc' = [proc EXCEPT ![p].pc = AfterPull(c, {"display"})]
        /\ UNCHANGED <<phones, nextId, calls>>

\* lines 45-49: $pull the name from the glass group
DeletePullGlass ==
    \E p \in DOMAIN proc :
        /\ At(p, "pull_glass")
        /\ LET c == proc[p] IN
           /\ groups' = PullModel(groups, c.glass_group_id, c.model_names[1])
           /\ proc' = [proc EXCEPT ![p].pc = AfterPull(c, {"display", "glass"})]
        /\ UNCHANGED <<phones, nextId, calls>>

\* lines 51-52: delete the phone document, return deleted_count > 0
DeleteDeleteOne ==
    \E p \in DOMAIN proc :
        /\ At(p, "delete_one")
        /\ LET c == proc[p] IN
           /\ phones' = DeleteOne(phones, c.model_names[1])
           /\ proc' = [proc EXCEPT ![p] = Returned(c,
                 IF DeletedCount(phones, c.model_names[1]) > 0 THEN "true" ELSE "false")]
        /\ UNCHANGED <<groups, nextId, calls>>

NextConc ==
    \/ StartLink \/ LinkFindPhones \/ LinkFindGroups \/ LinkInsertGroup
    \/ LinkSetMembers \/ LinkBulkWrite \/ LinkDeleteMany
    \/ StartDelete \/ DeleteFindPhone \/ DeletePullDisplay \/ DeletePullGlass
    \/ DeleteDeleteOne

SpecConc == Init /\ [][NextConc]_vars

\* ------------------------------------------------------------------------
\* Pair specification: after two completed calls, two link_parts calls that
\* share no model and no group run interleaved, step by step, to their end
\* ------------------------------------------------------------------------
\* a call as the bot issues it
LinkRequests ==
    {[op |-> "link", model_names |-> l, part_type |-> t] :
        l \in NonEmptyLists, t \in PartTypes}

DeleteRequests ==
    {[op |-> "delete", model_names |-> <<n>>, part_type |-> "none"] : n \in Names}

Requests == LinkRequests \cup DeleteRequests

EmptyStore == Store([k \in {} |-> None], [g \in {} |-> None], 1)

\* the store after the call c has run on st without interleaving
Run(st, c) ==
    LET r == IF c.op = "link"
             THEN link_parts(st, c.model_names, c.part_type,
                      CHOOSE l \in FinalModelLists(st, c.model_names, c.part_type) : TRUE)
             ELSE delete_phone(st, c.model_names[1])
    IN  Store(r.phones, r.groups, r.nextId)

\* the record of the call c that has returned from its run on st
Done(st, c) ==
    Returned(NewCall(c.op, c.model_names, c.part_type),
             IF c.op = "link" THEN "ok"
             ELSE IF HasPhone(st.phones, c.model_names[1]) THEN "true" ELSE "false")

\* the call of a call record
RequestOf(c) == [op |-> c.op, model_names |-> c.model_names, part_type |-> c.part_type]

Keys(model_names) == {Lower(m) : m \in Range(model_names)}

\* the groups the models of the link_parts call c belong to on st: those
\* their phone documents reference and those that list them
GroupIdsOf(st, c) ==
    {st.phones[k][c.part_type] :
        k \in {x \in Keys(c.model_names) \cap DOMAIN st.phones :
                 st.phones[x][c.part_type] # None}}
    \cup {g \in DOMAIN st.groups :
            /\ st.groups[g].type = c.part_type
            /\ Keys(c.model_names) \cap {Lower(m) : m \in st.groups[g].models} # {}}

\* the models of the call c and of the groups they belong to, as search keys
ModelKeysOf(st, c) ==
    Keys(c.model_names)
    \cup UNION {{Lower(m) : m \in st.groups[g].models} :
                    g \in GroupIdsOf(st, c) \cap DOMAIN st.groups}
    \cup {k \in DOMAIN st.phones : st.phones[k][c.part_type] \in GroupIdsOf(st, c)}

\* the calls c and d share no model and no group
Disjoint(st, c, d) ==
    /\ ModelKeysOf(st, c) \cap ModelKeysOf(st, d) = {}
    /\ GroupIdsOf(st, c) \cap GroupIdsOf(st, d) = {}

\* an order on link_parts calls: of two interleaved calls, the one is the
\* third call and the other the fourth, and which is which makes no
\* difference
RequestRank(c) ==
    <<IF c.part_type = "display" THEN 1 ELSE 2,
      CodeRank(c.model_names[1]),
      IF Len(c.model_names) > 1 THEN CodeRank(c.model_names[2]) ELSE 0>>

\* the first call finds the empty store, so it is a link_parts (a
\* delete_phone would change nothing)
InitPair ==
    \E c1 \in LinkRequests, c2 \in Requests : \E c3, c4 \in LinkRequests :
        LET s1 == Run(EmptyStore, c1)
            s2 == Run(s1, c2)
        IN  /\ StrLess(RequestRank(c3), RequestRank(c4))
            /\ Disjoint(s2, c3, c4)
            /\ phones = s2.phones
            /\ groups = s2.groups
            /\ nextId = s2.nextId
            /\ proc = <<Done(EmptyStore, c1), Done(s1, c2),
                        NewCall(c3.op, c3.model_names, c3.part_type),
                        NewCall(c4.op, c4.model_names, c4.part_type)>>
            /\ calls = 4

NextPair ==
    \/ LinkFindPhones \/ LinkFindGroups \/ LinkInsertGroup
    \/ LinkSetMembers \/ LinkBulkWrite \/ LinkDeleteMany

SpecPair == InitPair /\ [][NextPair]_vars

\* ------------------------------------------------------------------------
\* Race specification: after two completed calls, a delete_phone of a stored
\* phone and a link_parts that names the phone or a member of its groups run
\* interleaved, step by step, to their end
\* ------------------------------------------------------------------------
\* search keys of the phone named model_name and of the members of the
\* groups it references on st
GroupMatesOf(st, model_name) ==
    {Lower(model_name)}
    \cup UNION {{Lower(m) : m \in st.groups[g].models} :
                   g \in {find_phone(st.phones, model_name)[t] : t \in PartTypes}
                            \cap DOMAIN st.groups}

InitRace ==
    \E c1 \in LinkRequests, c2 \in Requests :
      \E c3 \in DeleteRequests, c4 \in LinkRequests :
        LET s1 == Run(EmptyStore, c1)
            s2 == Run(s1, c2)
        IN  /\ HasPhone(s2.phones, c3.model_names[1])
            /\ Keys(c4.model_names) \cap GroupMatesOf(s2, c3.model_names[1]) # {}
            /\ phones = s2.phones
            /\ groups = s2.groups
            /\ nextId = s2.nextId
            /\ proc = <<Done(EmptyStore, c1), Done(s1, c2),
                        NewCall(c3.op, c3.model_names, c3.part_type),
                        NewCall(c4.op, c4.model_names, c4.part_type)>>
            /\ calls = 4

NextRace ==
    \/ LinkFindPhones \/ LinkFindGroups \/ LinkInsertGroup
    \/ LinkSetMembers \/ LinkBulkWrite \/ LinkDeleteMany
    \/ DeleteFindPhone \/ DeletePullDisplay \/ DeletePullGlass
    \/ DeleteDeleteOne

SpecRace == InitRace /\ [][NextRace]_vars

\* ------------------------------------------------------------------------
\* Properties of completed calls
\* ------------------------------------------------------------------------
\* group documents of one part type
GroupsOf(gr, part_type) == {g \in DOMAIN gr : gr[g].type = part_type}

\* the group references of every phone, without the stored _id
Refs(ph) == [k \in DOMAIN ph |-> [display |-> ph[k].display, glass |-> ph[k].glass]]

\* C1: after any sequence of completed link_parts and delete_phone calls no
\* model name is a member of two distinct groups of the same part type.
C1_NoModelInTwoGroups ==
    \A g, h \in DOMAIN groups :
        (g # h /\ groups[g].type = groups[h].type)
            => groups[g].models \cap groups[h].models = {}

\* C2: after any sequence of completed calls every phone document whose
\* display or glass group reference is present references a group document
\* that exists and whose models contain the phone's _id.
C2_RefsPointToOwnGroup ==
    \A k \in DOMAIN phones : \A part_type \in PartTypes :
        phones[k][part_type] # None
            => /\ phones[k][part_type] \in DOMAIN groups
               /\ phones[k].id \in groups[phones[k][part_type]].models

\* C3: after any sequence of completed calls every member m of every group
\* has a phone document, and that document's reference for the group's part
\* type is the group's _id.
C3_MembersHavePhones ==
    \A g \in DOMAIN groups : \A m \in groups[g].models :
        /\ HasPhone(phones, m)
        /\ find_phone(phones, m)[groups[g].type] = g

\* C4: when link_parts(model_names, part_type) completes, exactly one group
\* of part_type contains every input name and every prior member of the
\* groups the input models belonged to, every other such prior group is
\* gone, and every remaining group of part_type is referenced by a phone.
C4_LinkResult ==
    \A model_names \in NonEmptyLists, part_type \in PartTypes :
      \A final_model_list \in FinalModelLists(Cur, model_names, part_type) :
        LET prior == ExistingGroupIds(FindPhones(phones, model_names), part_type)
            all == AllModelsInGroups(groups, model_names, prior)
            r == link_parts(Cur, model_names, part_type, final_model_list)
            holders == {g \in GroupsOf(r.groups, part_type) :
                            all \subseteq r.groups[g].models}
        IN  /\ Cardinality(holders) = 1
            /\ \A g \in prior : g \in holders \/ g \notin DOMAIN r.groups
            /\ \A g \in GroupsOf(r.groups, part_type) :
                   \E k \in DOMAIN r.phones : r.phones[k][part_type] = g

\* C6: link_parts([A,B]) then link_parts([B,C]) leaves one group holding A, B
\* and C to which the phones of all three point (exactly {A,B,C} when none of
\* them was known before), with the same groups and the same phone-to-group
\* references as a single link_parts([A,B,C]) from the same state.
C6_MergeAssociative ==
    \A A \in Names, B \in Names, C \in Names, part_type \in PartTypes :
      \A f1 \in FinalModelLists(Cur, <<A, B>>, part_type) :
        LET s1 == link_parts(Cur, <<A, B>>, part_type, f1) IN
        \A f2 \in FinalModelLists(s1, <<B, C>>, part_type) :
          LET s2 == link_parts(s1, <<B, C>>, part_type, f2) IN
          /\ \E g \in GroupsOf(s2.groups, part_type) :
                /\ {A, B, C} \subseteq s2.groups[g].models
                /\ \A m \in {A, B, C} : find_phone(s2.phones, m)[part_type] = g
                /\ (\A m \in {A, B, C} :
                        /\ ~HasPhone(phones, m)
                        /\ \A h \in DOMAIN groups : m \notin groups[h].models)
                    => s2.groups[g].models = {A, B, C}
          /\ \A f3 \in FinalModelLists(Cur, <<A, B, C>>, part_type) :
                LET d == link_parts(Cur, <<A, B, C>>, part_type, f3) IN
                /\ s2.groups = d.groups
                /\ Refs(s2.phones) = Refs(d.phones)

\* a group of three different models to which all three phones point
C6_Witness ==
    \E g \in DOMAIN groups :
        /\ Cardinality({Lower(m) : m \in groups[g].models}) = 3
        /\ \A m \in groups[g].models :
              /\ HasPhone(phones, m)
              /\ find_phone(phones, m)[groups[g].type] = g

\* C7: link_parts is idempotent: from every reachable state a second
\* link_parts(model_names, part_type) right after the first leaves the
\* phones, the groups and their ids as the first left them and creates no
\* further group.
C7_LinkIdempotent ==
    \A model_names \in NonEmptyLists, part_type \in PartTypes :
      \A f1 \in FinalModelLists(Cur, model_names, part_type) :
        LET s1 == link_parts(Cur, model_names, part_type, f1) IN
        \A f2 \in FinalModelLists(s1, model_names, part_type) :
          LET s2 == link_parts(s1, model_names, part_type, f2) IN
          /\ s2.phones = s1.phones
          /\ s2.groups = s1.groups
          /\ s2.nextId = s1.nextId

\* a first link_parts of two names has completed: both phones point to one
\* group that lists both, and a second call would find that group
C7_Witness ==
    \E model_names \in NonEmptyLists, part_type \in PartTypes :
        /\ Len(model_names) = 2
        /\ \A m \in Range(model_names) : HasPhone(phones, m)
        /\ \E g \in GroupsOf(groups, part_type) :
              /\ Range(model_names) \subseteq groups[g].models
              /\ ExistingGroupIds(FindPhones(phones, model_names), part_type) = {g}

\* C8: delete_phone(model_name), for any model_name whose lowercase form is
\* the search_key of a phone, removes that phone's _id from every group that
\* listed it, deletes the phone document and returns True.
C8_DeleteRemovesPhone ==
    \A model_name \in Names :
        HasPhone(phones, model_name) =>
            LET doc == find_phone(phones, model_name)
                r == delete_phone(Cur, model_name)
            IN  /\ \A g \in DOMAIN r.groups : doc.id \notin r.groups[g].models
                /\ ~HasPhone(r.phones, model_name)
                /\ r.ret = TRUE

\* C9: after any sequence of completed calls no group document has an empty
\* member set, and delete_phone leaves none behind: a group whose last
\* member it removes is removed with it.
C9_NoEmptyGroup ==
    /\ \A g \in DOMAIN groups : groups[g].models # {}
    /\ \A model_name \in Names :
          LET r == delete_phone(Cur, model_name) IN
          \A g \in DOMAIN r.groups : r.groups[g].models # {}

\* the texts a caller can put into model_names: names, the empty text and a
\* blank
RawNames == Names \cup {"", " "}

\* str.strip() of a text
Strip(n) == IF n = " " THEN "" ELSE n

\* model_names lists over RawNames of length 0..MaxLen
RawLists == UNION {[1..n -> RawNames] : n \in 0..MaxLen}

\* C10: link_parts leaves out the input names that are empty after trimming
\* (none of them becomes a group member or a phone), and on a list in which
\* no name is left it writes nothing (no group and no phone is created or
\* changed) and reports an error.
C10_EmptyInputRejected ==
    \A model_names \in RawLists, part_type \in PartTypes :
      \A final_model_list \in FinalModelLists(Cur, model_names, part_type) :
        LET r == link_parts(Cur, model_names, part_type, final_model_list) IN
        /\ \A g \in DOMAIN r.groups : \A m \in r.groups[g].models : Strip(m) # ""
        /\ \A k \in DOMAIN r.phones : Strip(r.phones[k].id) # ""
        /\ (\A i \in DOMAIN model_names : Strip(model_names[i]) = "")
            => /\ r.phones = phones
               /\ r.groups = groups
               /\ r.ret = "error"

\* C11: delete_phone(model_name) on a name without a phone document returns
\* False and leaves every phone and every group document as it was.
C11_DeleteAbsent ==
    \A model_name \in Names :
        ~HasPhone(phones, model_name) =>
            LET r == delete_phone(Cur, model_name) IN
            /\ r.ret = FALSE
            /\ r.phones = phones
            /\ r.groups = groups

\* a store with phones and groups in which some name has no phone document
C11_Witness ==
    /\ DOMAIN phones # {}
    /\ DOMAIN groups # {}
    /\ \E model_name \in Names : ~HasPhone(phones, model_name)

\* the phone found under model_name is the only member of its group
AloneInGroup(model_name, part_type) ==
    /\ HasPhone(phones, model_name)
    /\ find_phone(phones, model_name)[part_type] \in DOMAIN groups
    /\ \A m \in groups[find_phone(phones, model_name)[part_type]].models :
          Lower(m) = Lower(model_name)

\* C12: get_compatible_models returns [] when no phone is found, exactly
\* [model_name] when the phone has no group for part_type, and [] for a phone
\* that is the only member of its group, so 'no group' and 'group of one'
\* give different results.
C12_LonelyCategory ==
    \A model_name \in Names, part_type \in PartTypes :
        LET r == get_compatible_models(Cur, model_name, part_type) IN
        /\ ~HasPhone(phones, model_name) => r = <<>>
        /\ (/\ HasPhone(phones, model_name)
            /\ find_phone(phones, model_name)[part_type] = None)
            => r = <<model_name>>
        /\ AloneInGroup(model_name, part_type) => r = <<>>
        /\ \A other \in Names :
              (/\ HasPhone(phones, other)
               /\ find_phone(phones, other)[part_type] = None
               /\ AloneInGroup(model_name, part_type))
                => get_compatible_models(Cur, other, part_type) # r

\* a phone that is alone in its display group and has no glass group
C12_Witness ==
    \E model_name \in Names :
        /\ AloneInGroup(model_name, "display")
        /\ find_phone(phones, model_name).glass = None

\* C13: for a phone with a group for part_type, get_compatible_models
\* returns exactly the members of that group other than the phone itself:
\* no spelling of the queried model, every other member, each once, whatever
\* the letter case of the query.
C13_SelfExclusion ==
    \A model_name \in Names, part_type \in PartTypes :
        (/\ HasPhone(phones, model_name)
         /\ find_phone(phones, model_name)[part_type] # None)
        => LET doc == find_phone(phones, model_name)
               r == get_compatible_models(Cur, model_name, part_type)
           IN  /\ doc[part_type] \in DOMAIN groups
               /\ doc.id \notin Range(r)
               /\ model_name \notin Range(r)
               /\ Range(r) = {m \in groups[doc[part_type]].models :
                                 Lower(m) # doc.search_key}
               /\ Cardinality(Range(r)) = Len(r)
               /\ r = get_compatible_models(Cur, doc.id, part_type)

\* a phone in a group with another model, and a spelling of the phone in
\* another letter case than its _id
C13_Witness ==
    \E model_name \in Names, part_type \in PartTypes :
        /\ HasPhone(phones, model_name)
        /\ find_phone(phones, model_name).id # model_name
        /\ find_phone(phones, model_name)[part_type] \in DOMAIN groups
        /\ get_compatible_models(Cur, model_name, part_type) # <<>>

\* the names m and n differ only in letter case
DifferOnlyInCase(m, n) == {m, n} = {"A", "a"}

\* no two phone documents whose _id are equal up to letter case
OnePhonePerName(ph) ==
    \A k1, k2 \in DOMAIN ph :
        (ph[k1].id = ph[k2].id \/ DifferOnlyInCase(ph[k1].id, ph[k2].id))
            => k1 = k2

\* C14: names that differ only in letter case find the same phone document,
\* there is at most one phone document per name up to letter case, and
\* link_parts creates no second document for, and never changes the _id of,
\* a phone that exists, whatever the letter case it is named in.
C14_CaseInsensitiveIdentity ==
    /\ \A m, n \in Names :
          DifferOnlyInCase(m, n) =>
              /\ HasPhone(phones, m) = HasPhone(phones, n)
              /\ HasPhone(phones, m) => find_phone(phones, m) = find_phone(phones, n)
    /\ OnePhonePerName(phones)
    /\ \A model_names \in NameLists, part_type \in PartTypes :
         \A final_model_list \in FinalModelLists(Cur, model_names, part_type) :
           LET r == link_parts(Cur, model_names, part_type, final_model_list) IN
           /\ OnePhonePerName(r.phones)
           /\ \A k \in DOMAIN phones :
                 /\ k \in DOMAIN r.phones
                 /\ r.phones[k].id = phones[k].id

\* link_parts has named an existing phone in another letter case: a group
\* lists a spelling that is not the phone's _id
C14_Witness ==
    \E g \in DOMAIN groups : \E m \in groups[g].models :
        /\ HasPhone(phones, m)
        /\ find_phone(phones, m).id # m
        /\ find_phone(phones, m)[groups[g].type] = g

\* C17: the batch of upserts of link_parts is idempotent: after any part of
\* the batch (the ordered batch stops at the first failure, so a prefix) was
\* applied, applying the whole batch gives the phone documents that applying
\* it once completely gives.
C17_BatchIdempotent ==
    \A model_names \in NameLists, part_type \in PartTypes, id \in 1..nextId :
      \A final_model_list \in FinalModelLists(Cur, model_names, part_type) :
          LET once == BulkWrite(phones, final_model_list, 1, part_type, id) IN
          \A j \in 0..Len(final_model_list) :
              BulkWrite(BulkWrite(phones, SubSeq(final_model_list, 1, j), 1,
                                  part_type, id),
                        final_model_list, 1, part_type, id) = once

\* a store on which some batch of two upserts updates one stored phone,
\* which has another group, and inserts one new phone
C17_Witness ==
    \E model_names \in NameLists, part_type \in PartTypes :
      \E final_model_list \in FinalModelLists(Cur, model_names, part_type) :
          /\ Len(final_model_list) = 2
          /\ ~HasPhone(phones, final_model_list[1])
          /\ HasPhone(phones, final_model_list[2])
          /\ find_phone(phones, final_model_list[2])[part_type] # None

\* the other part category
Other(part_type) == IF part_type = "display" THEN "glass" ELSE "display"

\* C18: link_parts(model_names, part_type) leaves the other category alone:
\* every stored phone keeps its reference for the other category, a new
\* phone has none, and no group of the other type is created, changed or
\* deleted.
C18_OtherCategoryUntouched ==
    \A model_names \in NameLists, part_type \in PartTypes :
      \A final_model_list \in FinalModelLists(Cur, model_names, part_type) :
        LET r == link_parts(Cur, model_names, part_type, final_model_list)
            other == Other(part_type)
        IN  /\ \A k \in DOMAIN phones :
                  /\ k \in DOMAIN r.phones
                  /\ r.phones[k][other] = phones[k][other]
            /\ \A k \in DOMAIN r.phones \ DOMAIN phones :
                  r.phones[k][other] = None
            /\ GroupsOf(r.groups, other) = GroupsOf(groups, other)
            /\ \A g \in GroupsOf(groups, other) : r.groups[g] = groups[g]

\* a phone with a group in both categories
C18_Witness ==
    \E k \in DOMAIN phones :
        /\ phones[k].display \in DOMAIN groups
        /\ phones[k].glass \in DOMAIN groups
        /\ phones[k].display # phones[k].glass

\* C19: delete_phone(model_name) of a stored phone changes nothing besides
\* that phone: the other phone documents are the same, the same group ids
\* exist with the same types, a group loses no member with another name and
\* gains none, and a group the phone had no reference to is the same.
C19_DeleteFrame ==
    \A model_name \in Names :
        HasPhone(phones, model_name) =>
            LET r == delete_phone(Cur, model_name)
                doc == find_phone(phones, model_name)
            IN  /\ \A k \in DOMAIN phones \ {Lower(model_name)} :
                      /\ k \in DOMAIN r.phones
                      /\ r.phones[k] = phones[k]
                /\ DOMAIN r.phones \subseteq DOMAIN phones
                /\ DOMAIN r.groups = DOMAIN groups
                /\ \A g \in DOMAIN groups :
                      /\ r.groups[g].type = groups[g].type
                      /\ r.groups[g].models \subseteq groups[g].models
                      /\ \A m \in groups[g].models :
                            Lower(m) # Lower(model_name) => m \in r.groups[g].models
                      /\ g \notin {doc.display, doc.glass} => r.groups[g] = groups[g]

\* a phone that shares a group with a phone of another name
C19_Witness ==
    \E k \in DOMAIN phones, part_type \in PartTypes :
        /\ phones[k][part_type] \in DOMAIN groups
        /\ \E m \in groups[phones[k][part_type]].models :
              /\ Lower(m) # k
              /\ HasPhone(phones, m)
              /\ find_phone(phones, m)[part_type] = phones[k][part_type]

\* the group ids the stored phones named in model_names have for part_type
GroupIdsOfInput(model_names, part_type) ==
    {phones[k][part_type] :
        k \in {x \in DOMAIN phones :
                 /\ \E i \in DOMAIN model_names : Lower(model_names[i]) = x
                 /\ phones[x][part_type] # None}}

\* C20: when some input model has a group for part_type, link_parts keeps
\* the group whose id is smallest in string order among the input's group
\* ids, deletes every other one of them and creates no group; when none has,
\* it creates exactly one group of part_type and deletes none.
C20_PrimarySelection ==
    \A model_names \in NameLists, part_type \in PartTypes :
      \A final_model_list \in FinalModelLists(Cur, model_names, part_type) :
        LET r == link_parts(Cur, model_names, part_type, final_model_list)
            ids == GroupIdsOfInput(model_names, part_type)
        IN  IF ids # {}
            THEN \E primary \in ids :
                    /\ \A h \in ids \ {primary} :
                          StrLess(IdStr(primary), IdStr(h))
                    /\ DOMAIN r.groups = DOMAIN groups \ (ids \ {primary})
                    /\ primary \in DOMAIN r.groups
                    /\ r.groups[primary].models = Range(final_model_list)
                    /\ \A m \in Range(model_names) :
                          find_phone(r.phones, m)[part_type] = primary
            ELSE /\ DOMAIN groups \subseteq DOMAIN r.groups
                 /\ Cardinality(DOMAIN r.groups \ DOMAIN groups) = 1
                 /\ \A g \in DOMAIN r.groups \ DOMAIN groups :
                       r.groups[g].type = part_type

\* two groups of one type, each the group of a stored phone: a link_parts
\* naming both phones has two existing group ids to choose from
C20_Witness ==
    \E k1, k2 \in DOMAIN phones, part_type \in PartTypes :
        /\ phones[k1][part_type] \in DOMAIN groups
        /\ phones[k2][part_type] \in DOMAIN groups
        /\ phones[k1][part_type] # phones[k2][part_type]

\* what one completed call does to the pair (phone k, part_type)
PairTransition(k, part_type) ==
    IF k \notin DOMAIN phones'
    THEN \* the document is destroyed: a delete_phone, no group is created
         /\ nextId' = nextId
         /\ DOMAIN groups' = DOMAIN groups
         /\ \A x \in DOMAIN phones \ {k} : x \in DOMAIN phones'
    ELSE LET old == phones[k][part_type]
             new == phones'[k][part_type]
         IN  /\ old # None => new # None
             /\ new # old =>
                   \* set by a link_parts: to its primary group, which lists
                   \* the model, and no document is destroyed in the step
                   /\ new \in DOMAIN groups'
                   /\ groups'[new].type = part_type
                   /\ \E m \in groups'[new].models : Lower(m) = k
                   /\ DOMAIN phones \subseteq DOMAIN phones'
                   /\ \A x \in DOMAIN phones' :
                         (\E m \in groups'[new].models : Lower(m) = x)
                            => phones'[x][part_type] = new

\* C21: a completed call takes a (phone, category) pair only from no group
\* to a group or from a group to the primary group of a link_parts, or
\* destroys the phone document in a delete_phone; a phone document that
\* stays never goes from a group reference back to none.
C21_PairTransitions ==
    [][\A k \in DOMAIN phones : \A part_type \in PartTypes :
          PairTransition(k, part_type)]_vars

\* a merge has happened: two groups were created, the second is gone and
\* two phones reference the first
C21_Witness ==
    /\ nextId = 3
    /\ DOMAIN groups = {1}
    /\ \E k1, k2 \in DOMAIN phones :
          /\ k1 # k2
          /\ phones[k1][groups[1].type] = 1
          /\ phones[k2][groups[1].type] = 1

\* C22: the list get_compatible_models returns for a phone with a group is
\* in case-insensitive order: no name stands before a name whose case-folded
\* form is smaller.
C22_SortedCaseInsensitive ==
    \A model_name \in Names, part_type \in PartTypes :
        (/\ HasPhone(phones, model_name)
         /\ find_phone(phones, model_name)[part_type] # None)
        => LET r == get_compatible_models(Cur, model_name, part_type) IN
           \A i, j \in DOMAIN r : i < j => FoldRank(r[i]) <= FoldRank(r[j])

\* C23: after any sequence of completed calls no group lists two distinct
\* names with the same lower-case form.
C23_NoCaseDuplicateMembers ==
    \A g \in DOMAIN groups : \A m, n \in groups[g].models :
        Lower(m) = Lower(n) => m = n

\* ------------------------------------------------------------------------
\* Properties of interleaved calls
\* ------------------------------------------------------------------------
\* every started call has returned
AllReturned == \A p \in DOMAIN proc : proc[p].pc = "done"

\* calls p and q are link_parts calls of one part type that share a model
OverlappingLinks(p, q) ==
    /\ p # q
    /\ proc[p].op = "link" /\ proc[q].op = "link"
    /\ proc[p].part_type = proc[q].part_type
    /\ {Lower(m) : m \in Range(proc[p].model_names)}
         \cap {Lower(m) : m \in Range(proc[q].model_names)} # {}

\* C5: when interleaved link_parts calls, two of them of the same part type
\* with overlapping model sets, have all returned, no two groups of one part
\* type contain the same model and no phone's group reference points at a
\* group that is gone.
C5_ConcurrentLinksConsistent ==
    (/\ AllReturned
     /\ \A p \in DOMAIN proc : proc[p].op = "link"
     /\ \E p, q \in DOMAIN proc : OverlappingLinks(p, q))
    => /\ \A g, h \in DOMAIN groups :
            (g # h /\ groups[g].type = groups[h].type)
                => groups[g].models \cap groups[h].models = {}
       /\ \A k \in DOMAIN phones : \A part_type \in PartTypes :
            phones[k][part_type] # None => phones[k][part_type] \in DOMAIN groups

\* every present group reference points at a group that exists and lists the
\* phone (in some letter case), and every member of a group has a phone
\* document that references that group
RefsAndMembersConsistent ==
    /\ \A k \in DOMAIN phones : \A part_type \in PartTypes :
          phones[k][part_type] # None
            => /\ phones[k][part_type] \in DOMAIN groups
               /\ \E m \in groups[phones[k][part_type]].models : Lower(m) = k
    /\ \A g \in DOMAIN groups : \A m \in groups[g].models :
          /\ HasPhone(phones, m)
          /\ find_phone(phones, m)[groups[g].type] = g

\* C15: a single link_parts or delete_phone call on a consistent store (the
\* first call, on the empty store) that is abandoned after any one of its
\* writes leaves references and members consistent: with one call started,
\* whatever step it has reached, the store is consistent.
C15_AbandonedCallConsistent ==
    calls = 1 => RefsAndMembersConsistent

\* what the claim compares of a store: the groups by type and member set
\* (not by id) and their number, and for every phone the group it
\* references in each category
View(st) ==
    [n |-> Cardinality(DOMAIN st.groups),
     grps |-> {<<st.groups[g].type, st.groups[g].models>> : g \in DOMAIN st.groups},
     refs |-> [k \in DOMAIN st.phones |->
                 [part_type \in PartTypes |->
                    LET id == st.phones[k][part_type] IN
                    IF id = None THEN <<"none">>
                    ELSE IF id \in DOMAIN st.groups
                         THEN <<st.groups[id].type, st.groups[id].models>>
                         ELSE <<"gone">>]]]

\* C16: two link_parts calls that share no model and no group, started
\* together on a store two earlier calls left, end after every interleaving
\* of their steps in the groups, member sets and phone references that
\* running them one after the other gives, in either order.
C16_DisjointLinksCommute ==
    (Len(proc) = 4 /\ AllReturned)
    => LET base == Run(Run(EmptyStore, RequestOf(proc[1])), RequestOf(proc[2]))
           c3 == RequestOf(proc[3])
           c4 == RequestOf(proc[4])
       IN  /\ View(Cur) = View(Run(Run(base, c3), c4))
           /\ View(Cur) = View(Run(Run(base, c4), c3))

\* both calls have returned, one of them merged two groups of its
\* part type into one, the other created a group
C16_Witness ==
    /\ Len(proc) = 4 /\ AllReturned
    /\ proc[3].part_type = proc[4].part_type
    /\ Cardinality(Keys(proc[3].model_names)) = 2
    /\ nextId = 4
    /\ Cardinality(GroupsOf(groups, proc[3].part_type)) = 2
    /\ Cardinality(DOMAIN groups) = 2

\* on st the phone model_name is fully present: it has a document, and every
\* group the document references exists and lists it
FullyPresent(st, model_name) ==
    /\ HasPhone(st.phones, model_name)
    /\ \A part_type \in PartTypes :
          LET id == find_phone(st.phones, model_name)[part_type] IN
          id # None =>
              /\ id \in DOMAIN st.groups
              /\ \E m \in st.groups[id].models : Lower(m) = Lower(model_name)

\* on st the phone model_name is fully absent: no document, and no group
\* lists it
FullyAbsent(st, model_name) ==
    /\ ~HasPhone(st.phones, model_name)
    /\ \A g \in DOMAIN st.groups : \A m \in st.groups[g].models :
          Lower(m) # Lower(model_name)

PresentOrAbsent(st, model_name) ==
    FullyPresent(st, model_name) \/ FullyAbsent(st, model_name)

\* C24: a delete_phone(B) and a link_parts that names B or a member of B's
\* groups have run interleaved and both have returned: B is fully present
\* or fully absent. (Stated for the pairs of calls for which this is so
\* when they run one after the other, in both orders.)
C24_DeleteLinkRace ==
    (/\ Len(proc) = 4 /\ AllReturned
     /\ proc[3].op = "delete" /\ proc[4].op = "link")
    => LET base == Run(Run(EmptyStore, RequestOf(proc[1])), RequestOf(proc[2]))
           c3 == RequestOf(proc[3])
           c4 == RequestOf(proc[4])
           B == c3.model_names[1]
       IN  (/\ PresentOrAbsent(Run(Run(base, c3), c4), B)
            /\ PresentOrAbsent(Run(Run(base, c4), c3), B))
           => PresentOrAbsent(Cur, B)

====
